---- MODULE Spec2Model ----
(***************************************************************************)
(* A model of anet.c, the TCP socket helpers of readsb.                    *)
(*                                                                         *)
(* One behaviour of the model is one call of one library function.  The    *)
(* kernel and the resolver are the environment: every result a system call *)
(* can hand back is chosen nondeterministically where the code makes the   *)
(* call.  A loop of the code advances by one iteration per step.           *)
(***************************************************************************)
EXTENDS Integers, Sequences, FiniteSets, TLC

(* ------------------------------ bounds --------------------------------- *)
\* longest resolved address list
MaxCand == 3
\* largest nfds handed to anetTcpServer
MaxFds == 2
\* largest count handed to anetRead / anetWrite
MaxCount == 3
\* most bytes the source of anetRead holds before EOF
MaxAvail == 4
\* the counter of interrupted accepts saturates here
MaxEintr == 2

(* ------------------------- program constants --------------------------- *)
\* ANET_OK and ANET_ERR come from anet.h: status OK = 0, ERR = -1
ANET_OK == 0
ANET_ERR == -1
ANET_CONNECT_NONE == 0
ANET_CONNECT_NONBLOCK == 1

\* the two address families the resolver hands back
Families == {"AF_INET", "AF_INET6"}

\* descriptors the process holds before the call (stdin, stdout, stderr)
InitOpen == {0, 1, 2}

\* what the caller's error buffer holds before the call
PriorContent == "<untouched>"

\* the format strings of the anetSetError calls
MsgResolve == "can't resolve %s: %s"
MsgSocket == "creating socket: %s"
MsgReuse == "setsockopt SO_REUSEADDR: %s"
MsgGetFl == "fcntl(F_GETFL): %s"
MsgSetFl == "fcntl(F_SETFL,O_NONBLOCK): %s"
MsgNoDelay == "setsockopt TCP_NODELAY: %s"
MsgSndBuf == "setsockopt SO_SNDBUF: %s"
MsgKeepAlive == "setsockopt SO_KEEPALIVE: %s"
MsgConnect == "connect: %s"
MsgBind == "bind: %s"
MsgListen == "listen: %s"
MsgAccept == "accept: %s"

VARIABLES
    op,         \* the library function called ("none" before the call)
    pc,         \* "idle", "loop" (inside the function's loop), "done" (returned)
    errGiven,   \* err != NULL
    sink,       \* content of the caller's error buffer
    open,       \* open descriptors of the process
    socks,      \* per socket created by the call and still open: its attributes
    gai,        \* resolved list: "none", "failed", "held", "freed"
    gaiFrees,   \* number of freeaddrinfo calls on the list
    gaiList,    \* the resolved list: the families of its candidates, in order
    p,          \* loop cursor into gaiList (Len + 1 stands for NULL)
    flags,      \* the flags argument of anetTcpGenericConnect
    trace,      \* history: per attempted candidate, what each system call did
    fds,        \* the caller's fds array: written slots only
    nfds,       \* the nfds argument of anetTcpServer
    i,          \* anetTcpServer's i
    count,      \* the count argument of anetRead / anetWrite
    totlen,     \* anetRead / anetWrite's totlen
    buf,        \* offset of anetRead / anetWrite's buf pointer
    avail,      \* bytes the source still holds before EOF
    consumed,   \* bytes taken from the source / accepted by the peer
    io,         \* history: per read or write, the size asked for and the result
    sys,        \* result of the last system call of a single-call function
    eintrs,     \* interrupted accepts so far (saturating)
    ret         \* the return value, meaningful once pc = "done"

vars == <<op, pc, errGiven, sink, open, socks, gai, gaiFrees, gaiList, p, flags,
          trace, fds, nfds, i, count, totlen, buf, avail, consumed, io, sys,
          eintrs, ret>>

connVars == <<gai, gaiFrees, gaiList, p, flags, trace>>
servVars == <<fds, nfds, i>>
ioVars == <<count, totlen, buf, avail, consumed, io>>

(* ------------------------------ helpers -------------------------------- *)
Min(a, b) == IF a <= b THEN a ELSE b

\* the kernel hands out the lowest unused descriptor
LowestFree(S) ==
    CHOOSE n \in 0..Cardinality(S) :
        n \notin S /\ \A m \in 0..Cardinality(S) : m \notin S => n <= m

\* every resolved list up to MaxCand candidates
AddrLists == UNION {[1..n -> Families] : n \in 0..MaxCand}

NoSocks == [f \in {} |-> 0]
NoFds == [f \in {} |-> 0]

\* attributes of a fresh socket
NewSock(fam) == [fam |-> fam, v6only |-> FALSE, nonblock |-> FALSE, st |-> "created"]

\* close(s)
Close(sk, s) == [f \in (DOMAIN sk) \ {s} |-> sk[f]]

\* one candidate of the history: "na" marks a system call that was not made
Entry(cand, fam, fd, sock, reuse, getfl, setfl, conn, v6, bind, listen) ==
    [cand |-> cand, fam |-> fam, fd |-> fd, sock |-> sock, reuse |-> reuse,
     getfl |-> getfl, setfl |-> setfl, conn |-> conn, v6 |-> v6, bind |-> bind,
     listen |-> listen]

(* ---------------------------- anetSetError ----------------------------- *)
\* a call that drops the message
anetSetErrorDropped(given, cur, msg) == cur

\* if (!err) return; vsnprintf(err, ANET_ERR_LEN, fmt, ap)
anetSetError(given, cur, msg) == IF given THEN msg ELSE cur

(* --------------------------- anetCreateSocket -------------------------- *)
\* s: the return value; fd: the descriptor socket() made (ANET_ERR if none);
\* a setsockopt failure returns ANET_ERR and leaves the new descriptor open
anetCreateSocket(sockRes, reuseRes, opn) ==
    IF sockRes = "fail"
    THEN [s |-> ANET_ERR, fd |-> ANET_ERR, open |-> opn, msg |-> MsgSocket]
    ELSE LET fd == LowestFree(opn) IN
         IF reuseRes = "fail"
         THEN [s |-> ANET_ERR, fd |-> fd, open |-> opn \cup {fd}, msg |-> MsgReuse]
         ELSE [s |-> fd, fd |-> fd, open |-> opn \cup {fd}, msg |-> ""]

(* ------------------------------ anetNonBlock --------------------------- *)
anetNonBlock(getflRes, setflRes) ==
    IF getflRes = "fail" THEN [ret |-> ANET_ERR, msg |-> MsgGetFl]
    ELSE IF setflRes = "fail" THEN [ret |-> ANET_ERR, msg |-> MsgSetFl]
    ELSE [ret |-> ANET_OK, msg |-> ""]

Init ==
    /\ op = "none"
    /\ pc = "idle"
    /\ errGiven \in BOOLEAN
    /\ sink = PriorContent
    /\ open = InitOpen
    /\ socks = NoSocks
    /\ gai = "none"
    /\ gaiFrees = 0
    /\ gaiList = << >>
    /\ p = 1
    /\ flags = ANET_CONNECT_NONE
    /\ trace = << >>
    /\ fds = NoFds
    /\ nfds = 0
    /\ i = 0
    /\ count = 0
    /\ totlen = 0
    /\ buf = 0
    /\ avail = 0
    /\ consumed = 0
    /\ io = << >>
    /\ sys = "na"
    /\ eintrs = 0
    /\ ret = 0

(* ------------------------ single-call functions ------------------------ *)
\* anetTcpNoDelay, anetSetSendBuffer, anetTcpKeepAlive: one setsockopt
SetOption(name, msg) ==
    /\ pc = "idle"
    /\ \E res \in {"ok", "fail"} :
        /\ sys' = res
        /\ sink' = IF res = "fail" THEN anetSetError(errGiven, sink, msg) ELSE sink
        /\ ret' = IF res = "fail" THEN ANET_ERR ELSE ANET_OK
    /\ op' = name
    /\ pc' = "done"
    /\ UNCHANGED <<errGiven, open, socks, connVars, servVars, ioVars, eintrs>>

TcpNoDelay == SetOption("anetTcpNoDelay", MsgNoDelay)
SetSendBuffer == SetOption("anetSetSendBuffer", MsgSndBuf)
TcpKeepAlive == SetOption("anetTcpKeepAlive", MsgKeepAlive)

\* anetNonBlock called by the user on a descriptor of theirs
NonBlock ==
    /\ pc = "idle"
    /\ \E getfl \in {"ok", "fail"}, setfl \in {"ok", "fail"} :
        LET r == anetNonBlock(getfl, setfl) IN
        /\ sys' = IF r.ret = ANET_OK THEN "ok" ELSE "fail"
        /\ trace' = <<Entry(0, "AF_INET", 0, "na", "na", getfl,
                            IF getfl = "ok" THEN setfl ELSE "na",
                            "na", "na", "na", "na")>>
        /\ sink' = IF r.ret = ANET_ERR THEN anetSetError(errGiven, sink, r.msg) ELSE sink
        /\ ret' = r.ret
    /\ op' = "anetNonBlock"
    /\ pc' = "done"
    /\ UNCHANGED <<errGiven, open, socks, gai, gaiFrees, gaiList, p, flags,
                   servVars, ioVars, eintrs>>

\* anetGetaddrinfo: on success the list is the caller's to release
Getaddrinfo ==
    /\ pc = "idle"
    /\ \/ /\ gai' = "failed"
          /\ gaiList' = << >>
          /\ sink' = anetSetError(errGiven, sink, MsgResolve)
          /\ ret' = ANET_ERR
       \/ /\ gai' = "held"
          /\ gaiList' \in AddrLists
          /\ sink' = sink
          /\ ret' = 0
    /\ op' = "anetGetaddrinfo"
    /\ pc' = "done"
    /\ UNCHANGED <<errGiven, open, socks, gaiFrees, p, flags, trace,
                   servVars, ioVars, sys, eintrs>>

(* ------------------------ anetTcpGenericConnect ------------------------ *)
\* flags & ANET_CONNECT_NONBLOCK
NonBlockRequested(fl) == (fl \div ANET_CONNECT_NONBLOCK) % 2 = 1

\* a connect that takes "operation in progress" for success whatever the flags
ConnectSucceededAnyFlags(fl, connRes) == connRes \in {"ok", "inprogress"}

\* connect(...) >= 0, or errno == EINPROGRESS && (flags & ANET_CONNECT_NONBLOCK)
ConnectSucceeded(fl, connRes) ==
    \/ connRes = "ok"
    \/ connRes = "inprogress" /\ NonBlockRequested(fl)

\* getaddrinfo at the head of anetTcpConnect / anetTcpNonBlockConnect
CallConnect(name, fl) ==
    /\ pc = "idle"
    /\ op' = name
    /\ flags' = fl
    /\ \/ /\ gai' = "failed"
          /\ gaiList' = << >>
          /\ sink' = anetSetError(errGiven, sink, MsgResolve)
          /\ ret' = ANET_ERR
          /\ pc' = "done"
       \/ /\ gai' = "held"
          /\ gaiList' \in AddrLists
          /\ sink' = sink
          /\ ret' = ret
          /\ pc' = "loop"
    /\ p' = 1
    /\ UNCHANGED <<errGiven, open, socks, gaiFrees, trace, servVars, ioVars,
                   sys, eintrs>>

TcpConnect == CallConnect("anetTcpConnect", ANET_CONNECT_NONE)
TcpNonBlockConnect == CallConnect("anetTcpNonBlockConnect", ANET_CONNECT_NONBLOCK)

\* one pass through the body of the for loop over the candidates
ConnectStep ==
    /\ op \in {"anetTcpConnect", "anetTcpNonBlockConnect"}
    /\ pc = "loop"
    /\ p <= Len(gaiList)
    /\ \E sockRes \in {"ok", "fail"}, reuseRes \in {"ok", "fail"},
          getfl \in {"ok", "fail"}, setfl \in {"ok", "fail"},
          connRes \in {"ok", "inprogress", "fail"} :
        LET fam == gaiList[p]
            c == anetCreateSocket(sockRes, reuseRes, open)
            nb == anetNonBlock(getfl, setfl)
            sk == IF c.fd = ANET_ERR THEN socks ELSE (c.fd :> NewSock(fam)) @@ socks
            reuseDone == IF sockRes = "ok" THEN reuseRes ELSE "na"
            getflDone == IF NonBlockRequested(flags) THEN getfl ELSE "na"
            setflDone == IF NonBlockRequested(flags) /\ getfl = "ok" THEN setfl ELSE "na"
        IN
        IF c.s = ANET_ERR THEN
            \* continue
            /\ sink' = anetSetError(errGiven, sink, c.msg)
            /\ open' = c.open
            /\ socks' = sk
            /\ trace' = Append(trace, Entry(p, fam, c.fd, sockRes, reuseDone,
                                            "na", "na", "na", "na", "na", "na"))
            /\ p' = p + 1
            /\ UNCHANGED <<pc, ret, gai, gaiFrees>>
        ELSE IF NonBlockRequested(flags) /\ nb.ret # ANET_OK THEN
            \* return ANET_ERR, with s open and the list not released
            /\ sink' = anetSetError(errGiven, sink, nb.msg)
            /\ open' = c.open
            /\ socks' = sk
            /\ trace' = Append(trace, Entry(p, fam, c.fd, sockRes, reuseDone,
                                            getflDone, setflDone, "na", "na", "na", "na"))
            /\ ret' = ANET_ERR
            /\ pc' = "done"
            /\ UNCHANGED <<p, gai, gaiFrees>>
        ELSE IF ConnectSucceeded(flags, connRes) THEN
            \* freeaddrinfo(gai_result); return s
            /\ sink' = sink
            /\ open' = c.open
            /\ socks' = [sk EXCEPT ![c.s].nonblock = NonBlockRequested(flags),
                                   ![c.s].st = IF connRes = "ok" THEN "connected"
                                               ELSE "pending"]
            /\ trace' = Append(trace, Entry(p, fam, c.fd, sockRes, reuseDone,
                                            getflDone, setflDone, connRes, "na", "na", "na"))
            /\ gai' = "freed"
            /\ gaiFrees' = gaiFrees + 1
            /\ ret' = c.s
            /\ pc' = "done"
            /\ UNCHANGED p
        ELSE
            \* anetSetError; close(s); next candidate
            /\ sink' = anetSetError(errGiven, sink, MsgConnect)
            /\ open' = c.open \ {c.s}
            /\ socks' = Close(sk, c.s)
            /\ trace' = Append(trace, Entry(p, fam, c.fd, sockRes, reuseDone,
                                            getflDone, setflDone, connRes, "na", "na", "na"))
            /\ p' = p + 1
            /\ UNCHANGED <<pc, ret, gai, gaiFrees>>
    /\ UNCHANGED <<op, errGiven, gaiList, flags, servVars, ioVars, sys, eintrs>>

\* p == NULL: freeaddrinfo(gai_result); return ANET_ERR
ConnectExhausted ==
    /\ op \in {"anetTcpConnect", "anetTcpNonBlockConnect"}
    /\ pc = "loop"
    /\ p > Len(gaiList)
    /\ gai' = "freed"
    /\ gaiFrees' = gaiFrees + 1
    /\ ret' = ANET_ERR
    /\ pc' = "done"
    /\ UNCHANGED <<op, errGiven, sink, open, socks, gaiList, p, flags, trace,
                   servVars, ioVars, sys, eintrs>>

(* ---------------------- anetTcpNonBlockConnectAddr --------------------- *)
\* the whole function: one pre-resolved candidate, always non-blocking
TcpNonBlockConnectAddr ==
    /\ pc = "idle"
    /\ \E fam \in Families,
          sockRes \in {"ok", "fail"}, reuseRes \in {"ok", "fail"},
          getfl \in {"ok", "fail"}, setfl \in {"ok", "fail"},
          connRes \in {"ok", "inprogress", "fail"} :
        LET c == anetCreateSocket(sockRes, reuseRes, open)
            nb == anetNonBlock(getfl, setfl)
            sk == IF c.fd = ANET_ERR THEN socks ELSE (c.fd :> NewSock(fam)) @@ socks
            reuseDone == IF sockRes = "ok" THEN reuseRes ELSE "na"
            setflDone == IF getfl = "ok" THEN setfl ELSE "na"
        IN
        /\ gaiList' = <<fam>>
        /\ IF c.s = ANET_ERR THEN
               /\ sink' = anetSetError(errGiven, sink, c.msg)
               /\ open' = c.open
               /\ socks' = sk
               /\ trace' = <<Entry(1, fam, c.fd, sockRes, reuseDone,
                                   "na", "na", "na", "na", "na", "na")>>
               /\ ret' = ANET_ERR
           ELSE IF nb.ret # ANET_OK THEN
               /\ sink' = anetSetError(errGiven, sink, nb.msg)
               /\ open' = c.open
               /\ socks' = sk
               /\ trace' = <<Entry(1, fam, c.fd, sockRes, reuseDone,
                                   getfl, setflDone, "na", "na", "na", "na")>>
               /\ ret' = ANET_ERR
           ELSE IF connRes \in {"ok", "inprogress"} THEN
               /\ sink' = sink
               /\ open' = c.open
               /\ socks' = [sk EXCEPT ![c.s].nonblock = TRUE,
                                      ![c.s].st = IF connRes = "ok" THEN "connected"
                                                  ELSE "pending"]
               /\ trace' = <<Entry(1, fam, c.fd, sockRes, reuseDone,
                                   getfl, setflDone, connRes, "na", "na", "na")>>
               /\ ret' = c.s
           ELSE
               /\ sink' = anetSetError(errGiven, sink, MsgConnect)
               /\ open' = c.open \ {c.s}
               /\ socks' = Close(sk, c.s)
               /\ trace' = <<Entry(1, fam, c.fd, sockRes, reuseDone,
                                   getfl, setflDone, connRes, "na", "na", "na")>>
               /\ ret' = ANET_ERR
    /\ op' = "anetTcpNonBlockConnectAddr"
    /\ flags' = ANET_CONNECT_NONBLOCK
    /\ pc' = "done"
    /\ UNCHANGED <<errGiven, gai, gaiFrees, p, servVars, ioVars, sys, eintrs>>

(* ------------------------------ anetListen ----------------------------- *)
\* the result of IPV6_V6ONLY is not looked at; bind or listen failing closes s
anetListen(s, fam, v6Res, bindRes, listenRes, opn, sk) ==
    LET sk1 == IF fam = "AF_INET6" /\ v6Res = "ok"
               THEN [sk EXCEPT ![s].v6only = TRUE] ELSE sk
    IN
    IF bindRes = "fail"
    THEN [ret |-> ANET_ERR, open |-> opn \ {s}, socks |-> Close(sk1, s), msg |-> MsgBind]
    ELSE IF listenRes = "fail"
    THEN [ret |-> ANET_ERR, open |-> opn \ {s}, socks |-> Close(sk1, s), msg |-> MsgListen]
    ELSE [ret |-> ANET_OK, open |-> opn, socks |-> [sk1 EXCEPT ![s].st = "listening"],
          msg |-> ""]

(* ----------------------------- anetTcpServer --------------------------- *)
\* a loop that runs one slot past nfds
ServerLoopCondOffByOne(cur, len, idx, n) == cur <= len /\ idx <= n

\* p != NULL && i < nfds
ServerLoopCond(cur, len, idx, n) == cur <= len /\ idx < n

\* return (i > 0 ? i : ANET_ERR)
ServerReturn(idx) == IF idx > 0 THEN idx ELSE ANET_ERR

\* getaddrinfo with AI_PASSIVE at the head of anetTcpServer
TcpServer ==
    /\ pc = "idle"
    /\ op' = "anetTcpServer"
    /\ nfds' \in -1..MaxFds
    /\ i' = 0
    /\ \/ /\ gai' = "failed"
          /\ gaiList' = << >>
          /\ sink' = anetSetError(errGiven, sink, MsgResolve)
          /\ ret' = ANET_ERR
          /\ pc' = "done"
       \/ /\ gai' = "held"
          /\ gaiList' \in AddrLists
          /\ sink' = sink
          /\ ret' = ret
          /\ pc' = "loop"
    /\ p' = 1
    /\ UNCHANGED <<errGiven, open, socks, gaiFrees, flags, trace, fds, ioVars,
                   sys, eintrs>>

\* one pass through the body of the for loop over the candidates
ServerStep ==
    /\ op = "anetTcpServer"
    /\ pc = "loop"
    /\ ServerLoopCond(p, Len(gaiList), i, nfds)
    /\ \E sockRes \in {"ok", "fail"}, reuseRes \in {"ok", "fail"},
          v6Res \in {"ok", "fail"}, bindRes \in {"ok", "fail"},
          listenRes \in {"ok", "fail"} :
        LET fam == gaiList[p]
            c == anetCreateSocket(sockRes, reuseRes, open)
            sk == IF c.fd = ANET_ERR THEN socks ELSE (c.fd :> NewSock(fam)) @@ socks
            reuseDone == IF sockRes = "ok" THEN reuseRes ELSE "na"
            v6Done == IF fam = "AF_INET6" THEN v6Res ELSE "na"
            listenDone == IF bindRes = "ok" THEN listenRes ELSE "na"
        IN
        IF c.s = ANET_ERR THEN
            /\ sink' = anetSetError(errGiven, sink, c.msg)
            /\ open' = c.open
            /\ socks' = sk
            /\ trace' = Append(trace, Entry(p, fam, c.fd, sockRes, reuseDone,
                                            "na", "na", "na", "na", "na", "na"))
            /\ UNCHANGED <<fds, i>>
        ELSE
            LET l == anetListen(c.s, fam, v6Res, bindRes, listenRes, c.open, sk) IN
            /\ open' = l.open
            /\ socks' = l.socks
            /\ trace' = Append(trace, Entry(p, fam, c.fd, sockRes, reuseDone,
                                            "na", "na", "na", v6Done, bindRes, listenDone))
            /\ IF l.ret = ANET_ERR
               THEN /\ sink' = anetSetError(errGiven, sink, l.msg)
                    /\ UNCHANGED <<fds, i>>
               ELSE /\ sink' = sink
                    /\ fds' = (i :> c.s) @@ fds
                    /\ i' = i + 1
    /\ p' = p + 1
    /\ UNCHANGED <<op, pc, errGiven, gai, gaiFrees, gaiList, flags, nfds, ioVars,
                   sys, eintrs, ret>>

\* the loop condition fails: freeaddrinfo(gai_result); return (i > 0 ? i : ANET_ERR)
ServerReturns ==
    /\ op = "anetTcpServer"
    /\ pc = "loop"
    /\ ~ServerLoopCond(p, Len(gaiList), i, nfds)
    /\ gai' = "freed"
    /\ gaiFrees' = gaiFrees + 1
    /\ ret' = ServerReturn(i)
    /\ pc' = "done"
    /\ UNCHANGED <<op, errGiven, sink, open, socks, gaiList, p, flags, trace,
                   servVars, ioVars, sys, eintrs>>

(* -------------------- anetGenericAccept / anetTcpAccept ---------------- *)
\* an accept loop that gives up on the first interruption
AcceptRetryNever(res) == FALSE

\* fd == -1 && errno == EINTR: continue
AcceptRetry(res) == res = "EINTR"

\* entry of anetTcpAccept, up to the head of anetGenericAccept's while(1)
TcpAccept ==
    /\ pc = "idle"
    /\ op' = "anetTcpAccept"
    /\ pc' = "loop"
    /\ UNCHANGED <<errGiven, sink, open, socks, connVars, servVars, ioVars, sys,
                   eintrs, ret>>

\* one accept(2) that comes back with res, and what the loop does with it
AcceptWith(res) ==
    /\ op = "anetTcpAccept"
    /\ pc = "loop"
    /\ sys' = res
    /\ IF res # "ok" /\ AcceptRetry(res) THEN
           /\ eintrs' = Min(eintrs + 1, MaxEintr)
           /\ UNCHANGED <<pc, sink, open, socks, ret>>
       ELSE IF res = "ok" THEN
           LET fd == LowestFree(open) IN
           /\ open' = open \cup {fd}
           /\ socks' = (fd :> [NewSock("AF_INET") EXCEPT !.st = "accepted"]) @@ socks
           /\ ret' = fd
           /\ pc' = "done"
           /\ UNCHANGED <<sink, eintrs>>
       ELSE
           /\ sink' = anetSetError(errGiven, sink, MsgAccept)
           /\ ret' = ANET_ERR
           /\ pc' = "done"
           /\ UNCHANGED <<open, socks, eintrs>>
    /\ UNCHANGED <<op, errGiven, connVars, servVars, ioVars>>

\* accept(2) is interrupted by a signal
AcceptInterrupted == AcceptWith("EINTR")

\* accept(2) yields a connection or a failure other than EINTR
AcceptResult == \E res \in {"ok", "fail"} : AcceptWith(res)

(* -------------------------------- anetRead ----------------------------- *)
\* a read that asks for the whole count again on every pass
ReadRequestWholeCount(cnt, tot) == cnt

\* the size handed to read(2): count - totlen
ReadRequest(cnt, tot) == cnt - tot

\* what read(2) can hand back for a request of req bytes on a source holding
\* left bytes before EOF: a failure, EOF, or a short or full read
ReadOutcomes(req, left) ==
    {[n |-> -1, errno |-> "EIO"]}
    \cup (IF left = 0 THEN {[n |-> 0, errno |-> "none"]}
          ELSE {[n |-> k, errno |-> "none"] : k \in 1..Min(req, left)})

\* entry of anetRead
Read ==
    /\ pc = "idle"
    /\ op' = "anetRead"
    /\ count' \in 0..MaxCount
    /\ avail' \in 0..MaxAvail
    /\ totlen' = 0
    /\ pc' = "loop"
    /\ UNCHANGED <<errGiven, sink, open, socks, connVars, servVars, buf, consumed,
                   io, sys, eintrs, ret>>

\* one pass through the body of anetRead's while loop
ReadStep ==
    /\ op = "anetRead"
    /\ pc = "loop"
    /\ totlen # count
    /\ LET req == ReadRequest(count, totlen) IN
       \E r \in ReadOutcomes(req, avail) :
        /\ io' = Append(io, [req |-> req, n |-> r.n, errno |-> r.errno])
        /\ IF r.n = 0 THEN
               /\ ret' = totlen
               /\ pc' = "done"
               /\ UNCHANGED <<totlen, buf, avail, consumed>>
           ELSE IF r.n = -1 THEN
               /\ ret' = -1
               /\ pc' = "done"
               /\ UNCHANGED <<totlen, buf, avail, consumed>>
           ELSE
               /\ totlen' = totlen + r.n
               /\ buf' = buf + r.n
               /\ avail' = avail - r.n
               /\ consumed' = consumed + r.n
               /\ UNCHANGED <<pc, ret>>
    /\ UNCHANGED <<op, errGiven, sink, open, socks, connVars, servVars, count,
                   sys, eintrs>>

\* totlen == count: return totlen
ReadReturns ==
    /\ op = "anetRead"
    /\ pc = "loop"
    /\ totlen = count
    /\ ret' = totlen
    /\ pc' = "done"
    /\ UNCHANGED <<op, errGiven, sink, open, socks, connVars, servVars, ioVars,
                   sys, eintrs>>

(* ------------------------------- anetWrite ----------------------------- *)
\* a write that reports a failure as the bytes written so far
WriteFailureAsTotal(nwritten, tot) == tot

\* if (nwritten == 0) return totlen; if (nwritten == -1) return -1
WriteStops(nwritten, tot) == IF nwritten = 0 THEN tot ELSE -1

\* what write(2) can hand back for a request of req bytes: a partial or full
\* write, a zero return, EPIPE once the peer has closed, another failure
WriteOutcomes(req) ==
    {[n |-> k, errno |-> "none"] : k \in 1..req}
    \cup {[n |-> 0, errno |-> "none"],
          [n |-> -1, errno |-> "EPIPE"],
          [n |-> -1, errno |-> "EIO"]}

\* entry of anetWrite
Write ==
    /\ pc = "idle"
    /\ op' = "anetWrite"
    /\ count' \in 0..MaxCount
    /\ totlen' = 0
    /\ pc' = "loop"
    /\ UNCHANGED <<errGiven, sink, open, socks, connVars, servVars, buf, avail,
                   consumed, io, sys, eintrs, ret>>

\* one pass through the body of anetWrite's while loop
WriteStep ==
    /\ op = "anetWrite"
    /\ pc = "loop"
    /\ totlen # count
    /\ LET req == count - totlen IN
       \E r \in WriteOutcomes(req) :
        /\ io' = Append(io, [req |-> req, n |-> r.n, errno |-> r.errno])
        /\ IF r.n = 0 \/ r.n = -1 THEN
               /\ ret' = WriteStops(r.n, totlen)
               /\ pc' = "done"
               /\ UNCHANGED <<totlen, buf, consumed>>
           ELSE
               /\ totlen' = totlen + r.n
               /\ buf' = buf + r.n
               /\ consumed' = consumed + r.n
               /\ UNCHANGED <<pc, ret>>
    /\ UNCHANGED <<op, errGiven, sink, open, socks, connVars, servVars, count,
                   avail, sys, eintrs>>

\* totlen == count: return totlen
WriteReturns ==
    /\ op = "anetWrite"
    /\ pc = "loop"
    /\ totlen = count
    /\ ret' = totlen
    /\ pc' = "done"
    /\ UNCHANGED <<op, errGiven, sink, open, socks, connVars, servVars, ioVars,
                   sys, eintrs>>

(* ---------------------------- specification ---------------------------- *)
Next ==
    \/ NonBlock
    \/ TcpNoDelay
    \/ SetSendBuffer
    \/ TcpKeepAlive
    \/ Getaddrinfo
    \/ TcpConnect
    \/ TcpNonBlockConnect
    \/ ConnectStep
    \/ ConnectExhausted
    \/ TcpNonBlockConnectAddr
    \/ TcpServer
    \/ ServerStep
    \/ ServerReturns
    \/ TcpAccept
    \/ AcceptInterrupted
    \/ AcceptResult
    \/ Read
    \/ ReadStep
    \/ ReadReturns
    \/ Write
    \/ WriteStep
    \/ WriteReturns

Spec == Init /\ [][Next]_vars

\* accept(2) does not keep reporting EINTR for ever
FairSpec == Spec /\ WF_vars(AcceptResult)

TypeOK ==
    /\ pc \in {"idle", "loop", "done"}
    /\ errGiven \in BOOLEAN
    /\ gai \in {"none", "failed", "held", "freed"}
    /\ gaiFrees \in 0..1
    /\ p \in 1..(Len(gaiList) + 1)
    /\ Len(trace) <= Len(gaiList) + 1
    /\ DOMAIN socks \subseteq open
    /\ InitOpen \subseteq open
    /\ eintrs \in 0..MaxEintr

(* ------------------------- vocabulary of the claims -------------------- *)
Connects == {"anetTcpConnect", "anetTcpNonBlockConnect"}
SocketMakers == Connects \cup {"anetTcpNonBlockConnectAddr", "anetTcpServer"}
Resolvers == Connects \cup {"anetTcpServer"}
SinkTakers == SocketMakers \cup {"anetNonBlock", "anetTcpNoDelay", "anetSetSendBuffer",
                                 "anetTcpKeepAlive", "anetGetaddrinfo", "anetTcpAccept"}
Messages == {MsgResolve, MsgSocket, MsgReuse, MsgGetFl, MsgSetFl, MsgNoDelay, MsgSndBuf,
             MsgKeepAlive, MsgConnect, MsgBind, MsgListen, MsgAccept}

Returned(names) == pc = "done" /\ op \in names
Last(s) == s[Len(s)]

\* the non-blocking variants
NonBlocking == op \in {"anetTcpNonBlockConnect", "anetTcpNonBlockConnectAddr"}

\* the candidate's socket was created and handed to the loop
Created(e) == e.sock = "ok" /\ e.reuse = "ok"
\* setting non-blocking mode failed on the candidate
NbFailed(e) == NonBlocking /\ Created(e) /\ (e.getfl = "fail" \/ e.setfl = "fail")
\* the candidate's connect completed or, non-blocking only, is in progress
Winner(e) ==
    /\ Created(e)
    /\ ~NbFailed(e)
    /\ \/ e.conn = "ok"
       \/ e.conn = "inprogress" /\ NonBlocking
\* socket creation, bind and listen all succeeded on the candidate
Listening(e) == Created(e) /\ e.bind = "ok" /\ e.listen = "ok"
\* listeners among the first k attempted candidates
ListenersUpTo(k) == Cardinality({j \in 1..k : Listening(trace[j])})

\* the message the library reports for the failure in a candidate, "" if none
FailMsg(e) ==
    IF e.sock = "fail" THEN MsgSocket
    ELSE IF e.reuse = "fail" THEN MsgReuse
    ELSE IF e.getfl = "fail" THEN MsgGetFl
    ELSE IF e.setfl = "fail" THEN MsgSetFl
    ELSE IF e.conn = "fail" \/ (e.conn = "inprogress" /\ ~NonBlocking) THEN MsgConnect
    ELSE IF e.bind = "fail" THEN MsgBind
    ELSE IF e.listen = "fail" THEN MsgListen
    ELSE ""

FailedCands == {k \in 1..Len(trace) : FailMsg(trace[k]) # ""}
SetMax(S) == CHOOSE x \in S : \A y \in S : y <= x

\* the message of the last failure the library reports, the prior content if none
LastReported ==
    IF FailedCands # {} THEN FailMsg(trace[SetMax(FailedCands)])
    ELSE IF gai = "failed" THEN MsgResolve
    ELSE IF sys = "fail" /\ op = "anetTcpNoDelay" THEN MsgNoDelay
    ELSE IF sys = "fail" /\ op = "anetSetSendBuffer" THEN MsgSndBuf
    ELSE IF sys = "fail" /\ op = "anetTcpKeepAlive" THEN MsgKeepAlive
    ELSE IF sys = "fail" /\ op = "anetTcpAccept" THEN MsgAccept
    ELSE PriorContent

\* bytes delivered by the first k reads or writes
RECURSIVE Delivered(_)
Delivered(k) == IF k = 0 THEN 0
                ELSE Delivered(k - 1) + (IF io[k].n > 0 THEN io[k].n ELSE 0)

(* ------------------------------- claims -------------------------------- *)

\* C1: a socket-creating call (TcpConnect, TcpConnectNonBlock,
\* TcpConnectNonBlockAddr, TcpServer) that returns ERR has closed every socket
\* it created: the open descriptors after the call are those before it.
NoDescriptorLeakedOnErr ==
    (Returned(SocketMakers) /\ ret = ANET_ERR) => open = InitOpen

\* C2: in TcpConnect, TcpConnectNonBlock and TcpServer a resolved address list
\* is released exactly once before the call returns, on every exit path.
ResolvedListReleasedOnce ==
    (Returned(Resolvers) /\ gai # "failed") => (gai = "freed" /\ gaiFrees = 1)

\* C3 as stated: with an error sink given, a successful call leaves the sink
\* unchanged, also when earlier candidates failed; a call returning ERR leaves
\* one message describing a failing operation in it.
SinkUntouchedOrOneMessage ==
    (Returned(SinkTakers) /\ errGiven) =>
        IF ret # ANET_ERR THEN sink = PriorContent ELSE sink \in Messages

\* C3 amended: with an error sink given, the sink after the call holds the
\* message of the last failure the library reports, and its prior content when
\* there was none; so it is unchanged after a success without a failed
\* candidate, and holds one message after an ERR that some failure caused.
SinkHoldsLastReportedFailure ==
    (Returned(SinkTakers) /\ errGiven) =>
        /\ sink = LastReported
        /\ (ret # ANET_ERR /\ FailedCands = {}) => sink = PriorContent
        /\ (ret # ANET_ERR /\ FailedCands # {}) => sink \in Messages
        /\ (ret = ANET_ERR /\ (FailedCands # {} \/ gai = "failed" \/ sys = "fail"))
               => sink \in Messages
        /\ (ret = ANET_ERR /\ FailedCands = {} /\ gai # "failed" /\ sys # "fail")
               => (sink = PriorContent /\ trace = << >>)

SinkKeepsFailedCandidateMessage ==
    /\ Returned(Connects)
    /\ errGiven
    /\ ret # ANET_ERR
    /\ Len(trace) >= 2
    /\ sink = MsgConnect

\* C4: TcpConnect and TcpConnectNonBlock attempt the candidates in resolver
\* order; a candidate whose socket creation fails is skipped; the call returns
\* the socket of the first candidate whose connect completed or (non-blocking
\* only) is in progress and attempts none after it; a failure to set
\* non-blocking mode returns ERR at once; an exhausted list returns ERR.
ConnectFirstWinnerInOrder ==
    (op \in Connects /\ gai # "failed") =>
        /\ \A k \in 1..Len(trace) :
            /\ trace[k].cand = k
            /\ trace[k].fam = gaiList[k]
            /\ ~Created(trace[k]) => (trace[k].conn = "na" /\ trace[k].getfl = "na")
            /\ k < Len(trace) => (~Winner(trace[k]) /\ ~NbFailed(trace[k]))
        /\ pc = "loop" =>
            /\ Len(trace) = p - 1
            /\ Len(trace) > 0 => (~Winner(Last(trace)) /\ ~NbFailed(Last(trace)))
        /\ pc = "done" =>
            IF Len(trace) > 0 /\ Winner(Last(trace))
            THEN ret = Last(trace).fd /\ ret # ANET_ERR /\ ret \in open
            ELSE IF Len(trace) > 0 /\ NbFailed(Last(trace))
            THEN ret = ANET_ERR
            ELSE ret = ANET_ERR /\ Len(trace) = Len(gaiList)

ConnectLaterCandidateWins ==
    /\ Returned({"anetTcpNonBlockConnect"})
    /\ Len(trace) = 2
    /\ Len(gaiList) = 3
    /\ trace[1].sock = "fail"
    /\ trace[2].conn = "inprogress"
    /\ ret = trace[2].fd

\* C5: TcpServer takes the candidates in resolver order while fewer than
\* maxFds listeners exist; it returns k, the number of candidates on which
\* socket creation, bind and listen all succeeded, 1 <= k <= maxFds, with
\* fds[0..k-1] those listening sockets in order and no other slot written; it
\* returns ERR exactly when k = 0.
ServerReturnsListeners ==
    (op = "anetTcpServer" /\ gai # "failed") =>
        /\ \A k \in 1..Len(trace) :
            /\ trace[k].cand = k
            /\ trace[k].fam = gaiList[k]
            /\ ListenersUpTo(k - 1) < nfds
        /\ pc = "done" =>
            LET k == ListenersUpTo(Len(trace))
                won == SelectSeq(trace, Listening)
            IN
            /\ Len(trace) < Len(gaiList) => k >= nfds
            /\ ret = (IF k > 0 THEN k ELSE ANET_ERR)
            /\ k > 0 => k <= nfds
            /\ DOMAIN fds = 0..(k - 1)
            /\ \A j \in 0..(k - 1) :
                /\ fds[j] = won[j + 1].fd
                /\ fds[j] \in open
                /\ socks[fds[j]].st = "listening"

ServerStopsAtMaxFds ==
    /\ Returned({"anetTcpServer"})
    /\ ret = nfds
    /\ Len(trace) < Len(gaiList)
    /\ \E k \in 1..Len(trace) : ~Listening(trace[k])

\* C6: ReadFull never asks for more than n minus the bytes already read and
\* never consumes more than n; it returns -1 when a read fails, n with exactly
\* n bytes consumed when the source holds at least n, and m when the source
\* holds only m < n before EOF, however the source splits its data.
ReadFullContract ==
    op = "anetRead" =>
        /\ consumed <= count
        /\ \A k \in 1..Len(io) : io[k].req = count - Delivered(k - 1)
        /\ pc = "done" =>
            LET m == consumed + avail IN
            IF \E k \in 1..Len(io) : io[k].n = -1 THEN ret = -1
            ELSE IF m >= count THEN ret = count /\ consumed = count
            ELSE ret = m /\ consumed = m

ReadFullInShortReads ==
    /\ Returned({"anetRead"})
    /\ Len(io) >= 2
    /\ ret = count
    /\ avail > 0

\* C7 as stated: WriteFull returns n when every write is accepted, and the
\* partial total k when the peer closes after k < n bytes were accepted.
WriteFullPartialOnPeerClose ==
    Returned({"anetWrite"}) =>
        /\ (\A k \in 1..Len(io) : io[k].n > 0) => ret = count
        /\ (io # << >> /\ Last(io).errno = "EPIPE") => ret = consumed

\* C7 amended: WriteFull returns n when every write is accepted, however the
\* writes are split; the partial total k when a write returns zero after k
\* bytes; and -1 when a write fails, as it does with EPIPE once the peer has
\* closed, whatever was accepted before.
WriteFullContract ==
    Returned({"anetWrite"}) =>
        /\ (\A k \in 1..Len(io) : io[k].n > 0) => (ret = count /\ consumed = count)
        /\ (io # << >> /\ Last(io).n = 0) => (ret = consumed /\ consumed < count)
        /\ (io # << >> /\ Last(io).n = -1) => ret = -1

WriteFailsAfterPeerClose ==
    /\ Returned({"anetWrite"})
    /\ io # << >>
    /\ Last(io).errno = "EPIPE"
    /\ consumed > 0
    /\ consumed < count
    /\ ret = -1

\* C8: TcpAccept retries after every EINTR without returning and without
\* writing the sink; a successful accept then returns the new descriptor, the
\* first other failure returns ERR with "accept: ..." in the sink; and the
\* call returns once accept yields a result other than EINTR.
AcceptSafe ==
    op = "anetTcpAccept" =>
        /\ pc = "loop" =>
            (sys \in {"na", "EINTR"} /\ sink = PriorContent /\ open = InitOpen)
        /\ sys = "EINTR" => (pc = "loop" /\ eintrs > 0)
        /\ pc = "done" =>
            /\ sys \in {"ok", "fail"}
            /\ sys = "ok" =>
                (ret # ANET_ERR /\ open = InitOpen \cup {ret} /\ ret \notin InitOpen
                 /\ sink = PriorContent)
            /\ sys = "fail" =>
                (ret = ANET_ERR /\ open = InitOpen
                 /\ sink = (IF errGiven THEN MsgAccept ELSE PriorContent))

AcceptRestartsUntilResult ==
    /\ []AcceptSafe
    /\ (op = "anetTcpAccept" /\ pc = "loop") ~> (pc = "done")

AcceptReturnsAfterInterrupts ==
    /\ Returned({"anetTcpAccept"})
    /\ eintrs = MaxEintr
    /\ sys = "ok"
    /\ ret \in open \ InitOpen

\* C9: every IPv6 listening socket TcpServer puts in its output array has
\* IPV6_V6ONLY set, whatever the option-setting call returned.
V6OnlyOnEveryIPv6Listener ==
    op = "anetTcpServer" =>
        \A j \in DOMAIN fds :
            socks[fds[j]].fam = "AF_INET6" => socks[fds[j]].v6only

\* C10: on a successful return the only sockets the call created that are
\* still open are the ones handed to the caller: the returned socket of
\* TcpConnect / TcpConnectNonBlock, the k sockets in fds[0..k-1] of TcpServer.
OnlyReturnedSocketsOpen ==
    /\ (Returned(Connects) /\ ret # ANET_ERR) => open \ InitOpen = {ret}
    /\ (Returned({"anetTcpServer"}) /\ ret # ANET_ERR) =>
           open \ InitOpen = {fds[j] : j \in DOMAIN fds}

====
